---- MODULE Spec2Model ----
(***************************************************************************)
(* A model of iregex.Regex (src/iregex/regex.py): the builder of regular   *)
(* expression strings.  A pattern text is a sequence of one-character      *)
(* strings; a value is a record [data, cg] holding the fragment list       *)
(* _data (a sequence of pattern texts) and the list _capture_groups.       *)
(***************************************************************************)
EXTENDS Integers, Sequences, FiniteSets, TLC

(* ----------------------------- bounds --------------------------------- *)

\* The caller goes on building from a returned value only while its
\* rendering has at most MaxLen characters ...
MaxLen == 7

\* ... and its _capture_groups list has at most MaxNames entries.
MaxNames == 1

\* Repetition counts passed to the quantifiers range over -1 .. MaxRep.
MaxRep == 3

(* --------------------------- text helpers ----------------------------- *)

\* "".join(parts)
RECURSIVE join(_)
join(parts) ==
    IF parts = <<>> THEN <<>> ELSE Head(parts) \o join(Tail(parts))

\* "".join(self._data)
__str__(self) == join(self.data)

\* Python's txt[lo:hi] for lo >= 0 and hi counted from the start when
\* hi >= 0 and from the end when hi < 0 (0-based, hi exclusive).
Slice(txt, lo, hi) ==
    LET n == Len(txt)
        h == IF hi < 0 THEN (IF n + hi < 0 THEN 0 ELSE n + hi)
             ELSE (IF hi > n THEN n ELSE hi)
    IN  IF lo >= h THEN <<>> ELSE SubSeq(txt, lo + 1, h)

\* str(d) of one decimal digit
DigitChar(d) ==
    CASE d = 0 -> "0" [] d = 1 -> "1" [] d = 2 -> "2" [] d = 3 -> "3"
      [] d = 4 -> "4" [] d = 5 -> "5" [] d = 6 -> "6" [] d = 7 -> "7"
      [] d = 8 -> "8" [] d = 9 -> "9"

RECURSIVE NatStr(_)
NatStr(k) ==
    IF k < 10 THEN <<DigitChar(k)>>
    ELSE NatStr(k \div 10) \o <<DigitChar(k % 10)>>

\* str(m) of a Python int
IntStr(m) == IF m < 0 THEN <<"-">> \o NatStr(-m) ELSE NatStr(m)

(* ---------------------------- constants ------------------------------- *)

ANY == <<".">>
ONE_OR_MORE == <<"+">>
OPTIONAL == <<"?">>
WHITESPACE == <<"\\", "s">>
ZERO_OR_MORE == <<"*">>
NEWLINE == <<"(", "?", ":", "\\", "n", "|", "\\", "r", "\\", "n", "?", ")">>

(* ------------------------ values and results -------------------------- *)

\* Regex(regex_str): an empty string gives an empty fragment list.
Regex(regex_str) ==
    [data |-> IF regex_str # <<>> THEN <<regex_str>> ELSE <<>>, cg |-> <<>>]

\* copy(self)
__copy__(self) == [data |-> self.data, cg |-> self.cg]

\* The outcome of a call: the value returned, or the exception raised.
\* same tells that the object returned is the receiver itself and not a new
\* object: whatever is then done to it in place is done to the receiver.
NoValue == [data |-> <<>>, cg |-> <<>>]
Return(v) == [err |-> "", out |-> v, same |-> FALSE]
ReturnSelf(self) == [err |-> "", out |-> self, same |-> TRUE]
Raise(e) == [err |-> e, out |-> NoValue, same |-> FALSE]

(* -------------------------- shape classifier -------------------------- *)

_is_character(t) ==
    \/ Len(t) = 1
    \/ Len(t) = 2 /\ t[1] = "\\"

_is_character_group(t) ==
    Len(t) >= 2 /\ t[1] = "[" /\ t[Len(t)] = "]"

_is_named_capture_group(t) ==
    Len(t) >= 5 /\ Slice(t, 0, 3) = <<"(", "?", "<">> /\ t[Len(t)] = ")"

_is_non_capture_group(t) ==
    /\ ~_is_named_capture_group(t)
    /\ Len(t) >= 4 /\ Slice(t, 0, 3) = <<"(", "?", ":">> /\ t[Len(t)] = ")"

_is_capture_group(t) ==
    /\ ~_is_named_capture_group(t)
    /\ ~_is_non_capture_group(t)
    /\ Len(t) >= 2 /\ t[1] = "(" /\ t[Len(t)] = ")"

\* _is_repeating without the closing brace of {m}, {m,} and {m,n}
is_repeating_no_brace(t) == t[Len(t)] \in {"?", "*", "+"}

\* txt_[-1] in ("?", "*", "+", "}"); indexing an empty text raises.
_is_repeating(t) == t[Len(t)] \in {"?", "*", "+", "}"}

(* ------------------------- grouping transforms ------------------------ *)

\* make_capture_group without the early return of a (X) receiver
capture_always_wrap(self) ==
    LET txt == __str__(self)
        out == __copy__(self)
    IN  IF _is_named_capture_group(txt) THEN Raise("AlreadyCapturedException")
        ELSE IF _is_non_capture_group(txt)
             THEN Return([out EXCEPT
                            !.data = <<<<"(">>, Slice(__str__(out), 3, -1), <<")">>>>])
        ELSE Return([out EXCEPT !.data = <<<<"(">>>> \o out.data \o <<<<")">>>>])

make_capture_group(self) ==
    LET txt == __str__(self)
        out == __copy__(self)
    IN  IF _is_named_capture_group(txt) THEN Raise("AlreadyCapturedException")
        ELSE IF _is_capture_group(txt) THEN ReturnSelf(self)
        ELSE IF _is_non_capture_group(txt)
             THEN Return([out EXCEPT
                            !.data = <<<<"(">>, Slice(__str__(out), 3, -1), <<")">>>>])
        ELSE Return([out EXCEPT !.data = <<<<"(">>>> \o out.data \o <<<<")">>>>])

\* make_non_capture_group returning the receiver itself where it has
\* nothing to change, as make_capture_group does
non_capture_return_self(self) ==
    LET txt == __str__(self)
        out == __copy__(self)
    IN  IF \/ _is_character(txt)
           \/ _is_character_group(txt)
           \/ _is_non_capture_group(txt)
        THEN ReturnSelf(self)
        ELSE IF _is_named_capture_group(txt) THEN Raise("AlreadyCapturedException")
        ELSE IF _is_capture_group(txt)
             THEN Return([out EXCEPT
                            !.data = <<<<"(", "?", ":">>, Slice(__str__(out), 1, -1),
                                       <<")">>>>])
        ELSE Return([out EXCEPT
                       !.data = <<<<"(", "?", ":">>>> \o out.data \o <<<<")">>>>])

make_non_capture_group(self) ==
    LET txt == __str__(self)
        out == __copy__(self)
    IN  IF \/ _is_character(txt)
           \/ _is_character_group(txt)
           \/ _is_non_capture_group(txt)
        THEN Return([out EXCEPT !.data = out.data])
        ELSE IF _is_named_capture_group(txt) THEN Raise("AlreadyCapturedException")
        ELSE IF _is_capture_group(txt)
             THEN Return([out EXCEPT
                            !.data = <<<<"(", "?", ":">>, Slice(__str__(out), 1, -1),
                                       <<")">>>>])
        ELSE Return([out EXCEPT
                       !.data = <<<<"(", "?", ":">>>> \o out.data \o <<<<")">>>>])

\* make_named_capture_group without the refusal of a named receiver
named_unguarded(self, name) ==
    LET txt == __str__(self)
        out == __copy__(self)
    IN  IF _is_non_capture_group(txt)
        THEN Return([out EXCEPT
                       !.data = <<<<"(", "?", "<">>, name, <<">">>,
                                  Slice(__str__(out), 3, -1), <<")">>>>])
        ELSE IF _is_capture_group(txt)
        THEN Return([out EXCEPT
                       !.data = <<<<"(", "?", "<">>, name, <<">">>,
                                  Slice(__str__(out), 1, -1), <<")">>>>])
        ELSE Return([data |-> <<<<"(", "?", "<">>, name, <<">">>>> \o out.data
                                \o <<<<")">>>>,
                     cg |-> Append(out.cg, name)])

make_named_capture_group(self, name) ==
    LET txt == __str__(self)
        out == __copy__(self)
    IN  IF _is_non_capture_group(txt)
        THEN Return([out EXCEPT
                       !.data = <<<<"(", "?", "<">>, name, <<">">>,
                                  Slice(__str__(out), 3, -1), <<")">>>>])
        ELSE IF _is_capture_group(txt)
        THEN Return([out EXCEPT
                       !.data = <<<<"(", "?", "<">>, name, <<">">>,
                                  Slice(__str__(out), 1, -1), <<")">>>>])
        ELSE IF _is_named_capture_group(txt)
        THEN Raise("AlreadyCapturedException")
        ELSE Return([data |-> <<<<"(", "?", "<">>, name, <<">">>>> \o out.data
                                \o <<<<")">>>>,
                     cg |-> Append(out.cg, name)])

make_lookahead(self) ==
    Return([__copy__(self) EXCEPT
              !.data = <<<<"(", "?", "=">>>> \o self.data \o <<<<")">>>>])

\* make_lookbehind with the refusal of a named receiver that the grouping
\* transforms have
lookbehind_guarded(self) ==
    IF _is_named_capture_group(__str__(self)) THEN Raise("AlreadyCapturedException")
    ELSE Return([__copy__(self) EXCEPT
                   !.data = <<<<"(", "?", "<", "=">>>> \o self.data \o <<<<")">>>>])

make_lookbehind(self) ==
    Return([__copy__(self) EXCEPT
              !.data = <<<<"(", "?", "<", "=">>>> \o self.data \o <<<<")">>>>])

make_negative_lookahead(self) ==
    Return([__copy__(self) EXCEPT
              !.data = <<<<"(", "?", "!">>>> \o self.data \o <<<<")">>>>])

make_negative_lookbehind(self) ==
    Return([__copy__(self) EXCEPT
              !.data = <<<<"(", "?", "<", "!">>>> \o self.data \o <<<<")">>>>])

(* ------------------------------ quantifiers ---------------------------- *)

\* out = self.make_non_capture_group(); out._data.append(token); return out
\* The token is appended in place to the object the transform returned.
GroupAndAppend(self, token) ==
    LET g == make_non_capture_group(self)
    IN  IF g.err # "" THEN g
        ELSE [g EXCEPT !.out = [g.out EXCEPT !.data = Append(g.out.data, token)]]

\* The guard every quantifier starts with: _is_repeating(self) reads the
\* last character of the rendering, which raises IndexError when the
\* rendering is empty.
RepeatGuard(self) ==
    LET txt == __str__(self)
    IN  IF txt = <<>> THEN "IndexError"
        ELSE IF _is_repeating(txt) THEN "AlreadyRepeatingException"
        ELSE ""

zero_or_more_repetitions(self) ==
    LET g == RepeatGuard(self)
    IN  IF g # "" THEN Raise(g)
        ELSE GroupAndAppend(self, ZERO_OR_MORE)

one_or_more_repetitions(self) ==
    LET g == RepeatGuard(self)
    IN  IF g # "" THEN Raise(g)
        ELSE GroupAndAppend(self, ONE_OR_MORE)

m_to_n_repetitions(self, m, n) ==
    LET g == RepeatGuard(self)
    IN  IF g # "" THEN Raise(g)
        ELSE IF m = 0 /\ n = 1 THEN GroupAndAppend(self, OPTIONAL)
        ELSE GroupAndAppend(self, <<"{">> \o IntStr(m) \o <<",">> \o IntStr(n) \o <<"}">>)

\* exactly_m_repetitions with a (?: ) around every receiver
exactly_wrapping(self, m) ==
    LET g == RepeatGuard(self)
    IN  IF g # "" THEN Raise(g)
        ELSE Return([__copy__(self) EXCEPT
                       !.data = <<<<"(", "?", ":">>>> \o self.data
                                  \o <<<<")">>, <<"{">> \o IntStr(m) \o <<"}">>>>])

exactly_m_repetitions(self, m) ==
    LET g == RepeatGuard(self)
    IN  IF g # "" THEN Raise(g)
        ELSE GroupAndAppend(self, <<"{">> \o IntStr(m) \o <<"}">>)

m_or_more_repetitions(self, m) ==
    LET g == RepeatGuard(self)
    IN  IF g # "" THEN Raise(g)
        ELSE IF m = 0 THEN zero_or_more_repetitions(self)
        ELSE IF m = 1 THEN one_or_more_repetitions(self)
        ELSE IF m < 0 THEN Raise("ValueError")
        ELSE GroupAndAppend(self, <<"{">> \o IntStr(m) \o <<",", "}">>)

optional(self) ==
    LET g == RepeatGuard(self)
    IN  IF g # "" THEN Raise(g)
        ELSE GroupAndAppend(self, OPTIONAL)

(* ----------------------- character-class builders ---------------------- *)

\* char is the argument tuple; each argument is used through str() only,
\* so it is held as its text.
any_char(self, char) ==
    LET out == __copy__(self)
    IN  IF \E i \in 1..Len(char) : ~_is_character(char[i])
        THEN Raise("NotACharacterException")
        ELSE IF Len(char) > 1
        THEN Return([out EXCEPT !.data = out.data \o <<<<"[">>>> \o char \o <<<<"]">>>>])
        ELSE Return([out EXCEPT !.data = char])

\* exclude_char with the single-argument shortcut of any_char
exclude_shortcut(self, char) ==
    LET out == __copy__(self)
    IN  IF \E i \in 1..Len(char) : ~_is_character(char[i])
        THEN Raise("NotACharacterException")
        ELSE IF Len(char) > 1
        THEN Return([out EXCEPT
                       !.data = out.data \o <<<<"[", "^">>>> \o char \o <<<<"]">>>>])
        ELSE Return([out EXCEPT !.data = char])

exclude_char(self, char) ==
    LET out == __copy__(self)
    IN  IF \E i \in 1..Len(char) : ~_is_character(char[i])
        THEN Raise("NotACharacterException")
        ELSE Return([out EXCEPT
                       !.data = out.data \o <<<<"[", "^">>>> \o char \o <<<<"]">>>>])

(* --------------------- concatenation and alternation ------------------- *)

\* The second operand of + and |: a raw string, a Regex, or something else.
StrOperand(s) == [kind |-> "str", s |-> s, v |-> NoValue]
RegexOperand(v) == [kind |-> "Regex", s |-> <<>>, v |-> v]
IntOperand == [kind |-> "int", s |-> <<>>, v |-> NoValue]

\* other_ after the isinstance dispatch
Normalize(other) == IF other.kind = "str" THEN Regex(other.s) ELSE other.v

\* set(xs): the elements of a list
ToSet(xs) == {xs[i] : i \in 1..Len(xs)}

\* __add__ without the check of the two name lists
add_unchecked(self, other) ==
    IF other.kind \notin {"str", "Regex"} THEN Raise("TypeError")
    ELSE LET other_ == Normalize(other)
         IN  Return([data |-> self.data \o other_.data,
                     cg |-> self.cg \o other_.cg])

__add__(self, other) ==
    IF other.kind = "Regex" /\ ToSet(self.cg) \cap ToSet(other.v.cg) # {}
    THEN Raise("SetIntersectionError")
    ELSE IF other.kind \notin {"str", "Regex"} THEN Raise("TypeError")
    ELSE LET other_ == Normalize(other)
         IN  Return([data |-> self.data \o other_.data,
                     cg |-> self.cg \o other_.cg])

__radd__(self, other) ==
    IF other.kind = "Regex" /\ ToSet(self.cg) \cap ToSet(other.v.cg) # {}
    THEN Raise("SetIntersectionError")
    ELSE IF other.kind \notin {"str", "Regex"} THEN Raise("TypeError")
    ELSE LET other_ == Normalize(other)
         IN  Return([data |-> other_.data \o self.data,
                     cg |-> other_.cg \o self.cg])

\* __or__ without the splicing of (?:X) operands
or_nested(self, other) ==
    IF other.kind = "Regex" /\ other.v.cg # <<>> THEN Raise("NonEmptyError")
    ELSE IF other.kind \notin {"str", "Regex"} THEN Raise("TypeError")
    ELSE IF self.cg # <<>> THEN Raise("NonEmptyError")
    ELSE LET other_ == Normalize(other)
         IN  Return([data |-> <<<<"(", "?", ":">>>> \o self.data \o <<<<"|">>>>
                                \o other_.data \o <<<<")">>>>,
                     cg |-> <<>>])

__or__(self, other) ==
    IF other.kind = "Regex" /\ other.v.cg # <<>> THEN Raise("NonEmptyError")
    ELSE IF other.kind \notin {"str", "Regex"} THEN Raise("TypeError")
    ELSE IF self.cg # <<>> THEN Raise("NonEmptyError")
    ELSE LET other_ == Normalize(other)
             s == __str__(self)
             o == __str__(other_)
             data ==
               IF _is_non_capture_group(s)
               THEN <<<<"(", "?", ":">>, Slice(s, 3, -1), <<"|">>>> \o
                    (IF _is_non_capture_group(o)
                     THEN <<Slice(o, 3, -1), <<")">>>>
                     ELSE other_.data \o <<<<")">>>>)
               ELSE IF _is_non_capture_group(o)
               THEN <<<<"(", "?", ":">>, s, <<"|">>, Slice(o, 3, -1), <<")">>>>
               ELSE <<<<"(", "?", ":">>>> \o self.data \o <<<<"|">>>> \o other_.data
                      \o <<<<")">>>>
         IN  Return([data |-> data, cg |-> <<>>])

__ror__(self, other) ==
    IF other.kind = "Regex" /\ other.v.cg # <<>> THEN Raise("NonEmptyError")
    ELSE IF other.kind \notin {"str", "Regex"} THEN Raise("TypeError")
    ELSE IF self.cg # <<>> THEN Raise("NonEmptyError")
    ELSE LET other_ == Normalize(other)
             s == __str__(self)
             o == __str__(other_)
             data ==
               IF _is_non_capture_group(o)
               THEN <<<<"(", "?", ":">>, Slice(o, 3, -1), <<"|">>>> \o
                    (IF _is_non_capture_group(s)
                     THEN <<Slice(s, 3, -1), <<")">>>>
                     ELSE self.data \o <<<<")">>>>)
               ELSE IF _is_non_capture_group(s)
               THEN <<<<"(", "?", ":">>, o, <<"|">>, Slice(s, 3, -1), <<")">>>>
               ELSE <<<<"(", "?", ":">>>> \o other_.data \o <<<<"|">>>> \o self.data
                      \o <<<<")">>>>
         IN  Return([data |-> data, cg |-> <<>>])

literal(self, regex) == __add__(self, regex)

logical_or(self, regex) == __or__(self, regex)

anything(self) == literal(self, StrOperand(ANY \o ZERO_OR_MORE))

whitespace(self) ==
    LET out == __copy__(self)
    IN  Return([out EXCEPT !.data = Append(out.data, WHITESPACE \o ZERO_OR_MORE)])

newlines(self) ==
    LET out == __copy__(self)
    IN  Return([out EXCEPT !.data = Append(out.data, NEWLINE \o ZERO_OR_MORE)])

(* ------------------------------- inputs -------------------------------- *)

\* Literal strings handed to Regex(...), + and |.
Literals == {<<>>, <<"a">>}

\* Names handed to make_named_capture_group.
Names == {<<"n">>, <<"m">>}

\* Repetition counts handed to the quantifiers, and the (m, n) pairs handed
\* to m_to_n_repetitions.
Reps == -1..MaxRep
RepPairs == {p \in Reps \X Reps : p[1] <= p[2] /\ p[2] <= p[1] + 1}

\* Argument tuples handed to any_char and exclude_char.
CharArgs ==
    {<<>>, <<<<"\\", "d">>>>, <<<<"\\", "+">>>>, <<<<"a">>, <<"b">>>>, <<<<"a", "b">>>>,
     <<<<"a">>, <<"a", "b">>>>}

\* Values built beforehand and handed to + and | as the second operand.
Built ==
    LET aa == literal(Regex(<<"a">>), StrOperand(<<"a">>)).out
        a == Regex(<<"a">>)
        g == make_non_capture_group(aa).out
    IN  { make_named_capture_group(a, <<"n">>).out,
          make_named_capture_group(a, <<"m">>).out,
          g,
          literal(g, RegexOperand(g)).out }

(* -------------------------------- state -------------------------------- *)

VARIABLES
    cur,    \* the value the caller holds: the receiver of the next call
    last    \* the call just made: its name, receiver, arguments and outcome

vars == <<cur, last>>

NoArg == [name |-> <<>>, m |-> 0, n |-> 0, char |-> <<>>, other |-> IntOperand]

\* No call is pending.
Idle ==
    [op |-> "", self |-> NoValue, arg |-> NoArg, err |-> "", out |-> NoValue,
     same |-> FALSE]

\* The operands a call on cur may be given: x + other and x | other take
\* any of them, the reflected other + x and other | x reach the Regex only
\* when other is not one.
Foreign == {StrOperand(s) : s \in Literals} \cup {IntOperand}
Others == Foreign \cup {RegexOperand(v) : v \in Built \cup {cur}}

Fits(v) == Len(__str__(v)) <= MaxLen /\ Len(v.cg) <= MaxNames

\* A call op(cur, arg) with outcome r: last.self is the receiver as it was
\* before the call; after it the receiver holds what the returned object
\* holds when the two are one object, and what it held otherwise.
Call(op, arg, r) ==
    /\ last = Idle
    /\ last' = [op |-> op, self |-> cur, arg |-> arg, err |-> r.err, out |-> r.out,
                same |-> r.same]
    /\ cur' = IF r.same THEN r.out ELSE cur

Init ==
    /\ cur = Regex(<<>>)
    /\ last = Idle

\* The caller goes on with the value the call returned.
Keep ==
    /\ last # Idle
    /\ last.err = ""
    /\ Fits(last.out)
    /\ cur' = last.out
    /\ last' = Idle

\* The caller goes on with the receiver: the call raised, or its value is
\* not used.
Drop ==
    /\ last # Idle
    /\ last' = Idle
    /\ UNCHANGED cur

New ==
    \E s \in Literals :
        /\ last = Idle
        /\ last' = [op |-> "Regex", self |-> NoValue,
                    arg |-> [NoArg EXCEPT !.other = StrOperand(s)],
                    err |-> "", out |-> Regex(s), same |-> FALSE]
        /\ UNCHANGED cur

Literal ==
    \E o \in Others : Call("literal", [NoArg EXCEPT !.other = o], literal(cur, o))

RAdd ==
    \E o \in Foreign : Call("__radd__", [NoArg EXCEPT !.other = o], __radd__(cur, o))

LogicalOr ==
    \E o \in Others :
        Call("logical_or", [NoArg EXCEPT !.other = o], logical_or(cur, o))

ROr ==
    \E o \in Foreign : Call("__ror__", [NoArg EXCEPT !.other = o], __ror__(cur, o))

Anything == Call("anything", NoArg, anything(cur))

Whitespace == Call("whitespace", NoArg, whitespace(cur))

Newlines == Call("newlines", NoArg, newlines(cur))

ZeroOrMore == Call("zero_or_more_repetitions", NoArg, zero_or_more_repetitions(cur))

OneOrMore == Call("one_or_more_repetitions", NoArg, one_or_more_repetitions(cur))

Optional == Call("optional", NoArg, optional(cur))

MToN ==
    \E p \in RepPairs :
        Call("m_to_n_repetitions", [NoArg EXCEPT !.m = p[1], !.n = p[2]],
             m_to_n_repetitions(cur, p[1], p[2]))

Exactly ==
    \E m \in Reps :
        Call("exactly_m_repetitions", [NoArg EXCEPT !.m = m],
             exactly_m_repetitions(cur, m))

MOrMore ==
    \E m \in Reps :
        Call("m_or_more_repetitions", [NoArg EXCEPT !.m = m],
             m_or_more_repetitions(cur, m))

AnyChar ==
    \E c \in CharArgs : Call("any_char", [NoArg EXCEPT !.char = c], any_char(cur, c))

ExcludeChar ==
    \E c \in CharArgs :
        Call("exclude_char", [NoArg EXCEPT !.char = c], exclude_char(cur, c))

CaptureGroup == Call("make_capture_group", NoArg, make_capture_group(cur))

NonCaptureGroup == Call("make_non_capture_group", NoArg, make_non_capture_group(cur))

NamedCaptureGroup ==
    \E name \in Names :
        Call("make_named_capture_group", [NoArg EXCEPT !.name = name],
             make_named_capture_group(cur, name))

Lookahead == Call("make_lookahead", NoArg, make_lookahead(cur))

Lookbehind == Call("make_lookbehind", NoArg, make_lookbehind(cur))

NegativeLookahead == Call("make_negative_lookahead", NoArg, make_negative_lookahead(cur))

NegativeLookbehind ==
    Call("make_negative_lookbehind", NoArg, make_negative_lookbehind(cur))

Next ==
    \/ New \/ Keep \/ Drop
    \/ Literal \/ RAdd \/ LogicalOr \/ ROr
    \/ Anything \/ Whitespace \/ Newlines
    \/ ZeroOrMore \/ OneOrMore \/ Optional \/ MToN \/ Exactly \/ MOrMore
    \/ AnyChar \/ ExcludeChar
    \/ CaptureGroup \/ NonCaptureGroup \/ NamedCaptureGroup
    \/ Lookahead \/ Lookbehind \/ NegativeLookahead \/ NegativeLookbehind

Spec == Init /\ [][Next]_vars

(* ======================== the claims' vocabulary ====================== *)

\* The rendering and the name set of a value, and of an operand of + or |.
Render(v) == __str__(v)
NameSet(v) == ToSet(v.cg)
OperandText(o) == IF o.kind = "str" THEN o.s ELSE Render(o.v)
OperandNames(o) == IF o.kind = "str" THEN {} ELSE NameSet(o.v)

\* The index of the "]" that closes the character class opened at t[i],
\* 0 when it is not closed: a "]" right after "[" or "[^" is a member.
RECURSIVE ClassScan(_, _)
ClassScan(t, j) ==
    IF j > Len(t) THEN 0
    ELSE IF t[j] = "\\" THEN ClassScan(t, j + 2)
    ELSE IF t[j] = "]" THEN j
    ELSE ClassScan(t, j + 1)

ClassClose(t, i) ==
    LET k == IF i + 1 <= Len(t) /\ t[i + 1] = "^" THEN i + 2 ELSE i + 1
    IN  ClassScan(t, k + 1)

\* Scanning t from i at nesting depth d: the index at which the depth first
\* returns to 0, Len(t) + 1 when the text ends at depth d > 0 or a class is
\* left open, 0 when the text ends before any group was opened.
RECURSIVE GroupScan(_, _, _)
GroupScan(t, i, d) ==
    IF i > Len(t) THEN (IF d = 0 THEN 0 ELSE Len(t) + 1)
    ELSE IF t[i] = "\\" THEN GroupScan(t, i + 2, d)
    ELSE IF t[i] = "["
         THEN (IF ClassClose(t, i) = 0 THEN Len(t) + 1
               ELSE GroupScan(t, ClassClose(t, i) + 1, d))
    ELSE IF t[i] = "(" THEN GroupScan(t, i + 1, d + 1)
    ELSE IF t[i] = ")" THEN (IF d <= 1 THEN i ELSE GroupScan(t, i + 1, d - 1))
    ELSE GroupScan(t, i + 1, d)

\* Parentheses are balanced and every character class is closed.
RECURSIVE Balanced(_, _)
Balanced(t, i) ==
    IF i > Len(t) THEN TRUE
    ELSE IF t[i] = "\\" THEN Balanced(t, i + 2)
    ELSE IF t[i] = "[" THEN ClassClose(t, i) # 0 /\ Balanced(t, ClassClose(t, i) + 1)
    ELSE IF t[i] = ")" THEN FALSE
    ELSE IF t[i] = "("
         THEN GroupScan(t, i, 0) <= Len(t) /\ Balanced(t, GroupScan(t, i, 0) + 1)
    ELSE Balanced(t, i + 1)

WellFormed(t) == Balanced(t, 1)

\* One atom: a character or escape, one character class, or one group
\* whose opening parenthesis is closed by the last character.
IsAtom(t) ==
    \/ Len(t) = 1 /\ t[1] \notin {"(", ")", "[", "\\"}
    \/ Len(t) = 2 /\ t[1] = "\\"
    \/ Len(t) >= 2 /\ t[1] = "[" /\ ClassClose(t, 1) = Len(t)
    \/ Len(t) >= 2 /\ t[1] = "(" /\ GroupScan(t, 1, 0) = Len(t)

\* A named group opens somewhere in t: "(?<" not followed by "=" or "!".
HasNamedGroup(t) ==
    \E i \in 1..Len(t) :
        /\ i + 3 <= Len(t)
        /\ SubSeq(t, i, i + 2) = <<"(", "?", "<">>
        /\ t[i + 3] \notin {"=", "!"}
        /\ (i = 1 \/ t[i - 1] # "\\")

Quantifiers ==
    {"zero_or_more_repetitions", "one_or_more_repetitions", "optional",
     "exactly_m_repetitions", "m_to_n_repetitions", "m_or_more_repetitions"}

\* The text t without the repetition suffix it ends in.
RECURSIVE BraceOpen(_, _)
BraceOpen(t, j) ==
    IF j < 1 THEN 0 ELSE IF t[j] = "{" THEN j ELSE BraceOpen(t, j - 1)

StripSuffix(t) ==
    IF t = <<>> THEN t
    ELSE IF t[Len(t)] \in {"?", "*", "+"} THEN SubSeq(t, 1, Len(t) - 1)
    ELSE IF t[Len(t)] = "}" /\ BraceOpen(t, Len(t)) > 0
         THEN SubSeq(t, 1, BraceOpen(t, Len(t)) - 1)
    ELSE t

\* The outer shape of a text, by the rules of the specification in their
\* order of priority; a lookbehind (?<=...) or (?<!...) is no named group.
Shape(t) ==
    IF Len(t) = 1 \/ (Len(t) = 2 /\ t[1] = "\\") THEN "SingleChar"
    ELSE IF Len(t) >= 2 /\ t[1] = "[" /\ t[Len(t)] = "]" THEN "CharClass"
    ELSE IF /\ Len(t) >= 5
            /\ SubSeq(t, 1, 3) = <<"(", "?", "<">>
            /\ t[Len(t)] = ")"
            /\ t[4] \notin {"=", "!"}
         THEN "NamedCaptureGroup"
    ELSE IF Len(t) >= 4 /\ SubSeq(t, 1, 3) = <<"(", "?", ":">> /\ t[Len(t)] = ")"
         THEN "NonCaptureGroup"
    ELSE IF Len(t) >= 2 /\ t[1] = "(" /\ t[Len(t)] = ")" THEN "CaptureGroup"
    ELSE "Other"

\* t ends in a repetition suffix: ?, *, + or a {...} token.
EndsInRepetition(t) ==
    /\ t # <<>>
    /\ (Len(t) = 1 \/ t[Len(t) - 1] # "\\")
    /\ \/ t[Len(t)] \in {"?", "*", "+"}
       \/ /\ t[Len(t)] = "}"
          /\ BraceOpen(t, Len(t)) > 0
          /\ \A k \in (BraceOpen(t, Len(t)) + 1)..(Len(t) - 1) :
                 t[k] \in {"0", "1", "2", "3", "4", "5", "6", "7", "8", "9", ",", "-"}

\* t ends in the escape of a character that is a repetition suffix when it
\* is not escaped: \? \* \+ \}
EndsInEscapedSuffix(t) ==
    Len(t) >= 2 /\ t[Len(t) - 1] = "\\" /\ t[Len(t)] \in {"?", "*", "+", "}"}

\* The outcomes of every quantifier call on v.
QuantifierOutcomes(v) ==
    {zero_or_more_repetitions(v), one_or_more_repetitions(v), optional(v)}
      \cup {exactly_m_repetitions(v, m) : m \in Reps}
      \cup {m_or_more_repetitions(v, m) : m \in Reps}
      \cup {m_to_n_repetitions(v, p[1], p[2]) : p \in RepPairs}

\* The suffix the table gives for a quantifier call.
TableSuffix(op, m, n) ==
    CASE op = "zero_or_more_repetitions" -> <<"*">>
      [] op = "one_or_more_repetitions" -> <<"+">>
      [] op = "optional" -> <<"?">>
      [] op = "exactly_m_repetitions" -> <<"{">> \o IntStr(m) \o <<"}">>
      [] op = "m_to_n_repetitions" ->
            IF m = 0 /\ n = 1 THEN <<"?">>
            ELSE <<"{">> \o IntStr(m) \o <<",">> \o IntStr(n) \o <<"}">>
      [] op = "m_or_more_repetitions" ->
            IF m = 0 THEN <<"*">>
            ELSE IF m = 1 THEN <<"+">>
            ELSE <<"{">> \o IntStr(m) \o <<",", "}">>

(* ============================== the claims ============================ *)

\* C1: concatenation (x + other, x.literal(other), other + x with a raw
\* string on either side).  When the name sets of the two operands
\* intersect the call raises SetIntersectionError; otherwise it returns a
\* value that renders as the left rendering followed by the right one and
\* whose name set is the union of both.
C1_Concatenate ==
    LET o == last.arg.other
    IN  /\ (last.op = "literal" /\ o.kind \in {"str", "Regex"}) =>
              IF NameSet(last.self) \cap OperandNames(o) # {}
              THEN last.err = "SetIntersectionError"
              ELSE /\ last.err = ""
                   /\ Render(last.out) = Render(last.self) \o OperandText(o)
                   /\ NameSet(last.out) = NameSet(last.self) \cup OperandNames(o)
        /\ (last.op = "__radd__" /\ o.kind \in {"str", "Regex"}) =>
              IF NameSet(last.self) \cap OperandNames(o) # {}
              THEN last.err = "SetIntersectionError"
              ELSE /\ last.err = ""
                   /\ Render(last.out) = OperandText(o) \o Render(last.self)
                   /\ NameSet(last.out) = OperandNames(o) \cup NameSet(last.self)

\* Two values that both carry names, with disjoint name sets, were
\* concatenated.
C1_Witness ==
    /\ last.op = "literal"
    /\ last.arg.other.kind = "Regex"
    /\ last.self.cg # <<>>
    /\ last.arg.other.v.cg # <<>>
    /\ last.err = ""

\* C2: no value holds a capture-group name twice in _capture_groups.
C2_NamesUnique ==
    /\ Cardinality(NameSet(cur)) = Len(cur.cg)
    /\ Cardinality(NameSet(last.out)) = Len(last.out.cg)

\* C3: a successful make_named_capture_group(name) returns a value whose
\* name set is the receiver's name set plus name.
C3_NameRegistered ==
    (last.op = "make_named_capture_group" /\ last.err = "") =>
        NameSet(last.out) = NameSet(last.self) \cup {last.arg.name}

\* C4: x | other and other | x raise NonEmptyError whenever a named capture
\* group is present in either operand.
C4_AlternateRejectsNamed ==
    (/\ last.op \in {"logical_or", "__ror__"}
     /\ last.arg.other.kind \in {"str", "Regex"}
     /\ \/ HasNamedGroup(Render(last.self))
        \/ HasNamedGroup(OperandText(last.arg.other)))
    => last.err = "NonEmptyError"

\* C5: a successful quantifier call on a well-formed operand renders one
\* atom followed by the repetition suffix, so that the suffix binds to the
\* whole operand.
C5_SuffixBindsWhole ==
    (/\ last.op \in Quantifiers
     /\ last.err = ""
     /\ WellFormed(Render(last.self)))
    => IsAtom(StripSuffix(Render(last.out)))

\* C6: a quantifier call on a receiver whose rendering ends in a repetition
\* suffix raises AlreadyRepeatingException; so does every quantifier call
\* on the value a quantifier, whitespace(), newlines() or anything()
\* returned.
C6_QuantifierGuard ==
    /\ (last.op \in Quantifiers /\ EndsInRepetition(Render(last.self)))
          => last.err = "AlreadyRepeatingException"
    /\ (/\ last.op \in Quantifiers \cup {"whitespace", "newlines", "anything"}
        /\ last.err = "")
          => \A r \in QuantifierOutcomes(last.out) :
                 r.err = "AlreadyRepeatingException"

\* A quantifier was called on a receiver ending in a {...} token.
C6_Witness ==
    /\ last.op \in Quantifiers
    /\ Render(last.self) # <<>>
    /\ Render(last.self)[Len(Render(last.self))] = "}"
    /\ last.err = "AlreadyRepeatingException"

\* C7: the suffix table.  On a receiver that does not end in a repetition
\* suffix and that make_non_capture_group accepts, m_or_more_repetitions(m)
\* with m < 0 raises ValueError and every other quantifier call returns
\* the rendering of make_non_capture_group(receiver) followed by the suffix
\* of the table, with the receiver's name set.
C7_SuffixTable ==
    (/\ last.op \in Quantifiers
     /\ ~EndsInRepetition(Render(last.self))
     /\ make_non_capture_group(last.self).err = ""
     /\ last.op = "m_to_n_repetitions" =>
            \/ last.arg.m < last.arg.n
            \/ (last.arg.m = 0 /\ last.arg.n = 1))
    => IF last.op = "m_or_more_repetitions" /\ last.arg.m < 0
       THEN last.err = "ValueError"
       ELSE /\ last.err = ""
            /\ Render(last.out) =
                  Render(make_non_capture_group(last.self).out)
                    \o TableSuffix(last.op, last.arg.m, last.arg.n)
            /\ NameSet(last.out) = NameSet(last.self)

\* C7 on the receivers whose rendering is not empty and does not end in an
\* escaped ?, *, + or }.
SuffixTableNonEmpty ==
    (Render(last.self) # <<>> /\ ~EndsInEscapedSuffix(Render(last.self)))
        => C7_SuffixTable

\* C8: make_non_capture_group by the shape of the receiver: SingleChar,
\* CharClass and NonCaptureGroup render unchanged, CaptureGroup (X) renders
\* (?:X), Other renders (?: + the receiver + ); the name set is unchanged.
C8_NonCaptureByShape ==
    last.op = "make_non_capture_group" =>
        LET t == Render(last.self)
            sh == Shape(t)
        IN  /\ sh \in {"SingleChar", "CharClass", "NonCaptureGroup"} =>
                  last.err = "" /\ Render(last.out) = t
            /\ sh = "CaptureGroup" =>
                  /\ last.err = ""
                  /\ Render(last.out) =
                        <<"(", "?", ":">> \o SubSeq(t, 2, Len(t) - 1) \o <<")">>
            /\ sh = "Other" =>
                  /\ last.err = ""
                  /\ Render(last.out) = <<"(", "?", ":">> \o t \o <<")">>
            /\ last.err = "" => NameSet(last.out) = NameSet(last.self)

\* C8 on the receivers that are no lookbehind.
NonCaptureByShapeNoLookbehind ==
    (Len(Render(last.self)) >= 4 /\ SubSeq(Render(last.self), 1, 3) = <<"(", "?", "<">>)
      \/ C8_NonCaptureByShape

\* C9: make_capture_group is idempotent: on the value a successful call
\* returned, a second call succeeds and renders the same; a (?:X) receiver
\* is rewritten to (X).
C9_CaptureIdempotent ==
    (last.op = "make_capture_group" /\ last.err = "") =>
        /\ make_capture_group(last.out).err = ""
        /\ Render(make_capture_group(last.out).out) = Render(last.out)
        /\ Shape(Render(last.self)) = "NonCaptureGroup" =>
              Render(last.out) =
                 <<"(">> \o SubSeq(Render(last.self), 4, Len(Render(last.self)) - 1)
                   \o <<")">>

\* make_capture_group was called on a (?:X) receiver and returned a value.
C9_Witness ==
    /\ last.op = "make_capture_group"
    /\ last.err = ""
    /\ Shape(Render(last.self)) = "NonCaptureGroup"
    /\ Len(Render(last.self)) > 4

\* C10: make_capture_group, make_non_capture_group and
\* make_named_capture_group raise AlreadyCapturedException on a receiver of
\* shape NamedCaptureGroup; in particular naming the value that a
\* successful make_named_capture_group returned raises it.
C10_AlreadyCaptured ==
    /\ (/\ last.op \in {"make_capture_group", "make_non_capture_group",
                        "make_named_capture_group"}
        /\ Shape(Render(last.self)) = "NamedCaptureGroup")
          => last.err = "AlreadyCapturedException"
    /\ (last.op = "make_named_capture_group" /\ last.err = "")
          => \A m \in Names :
                 make_named_capture_group(last.out, m).err
                    = "AlreadyCapturedException"

\* make_named_capture_group was called on a named group that carries its
\* name, and raised.
C10_Witness ==
    /\ last.op = "make_named_capture_group"
    /\ Shape(Render(last.self)) = "NamedCaptureGroup"
    /\ last.self.cg # <<>>
    /\ last.err = "AlreadyCapturedException"

GroupingOps ==
    {"make_capture_group", "make_non_capture_group", "make_named_capture_group"}

\* t opens with a lookbehind: (?<= or (?<!
IsLookbehind(t) ==
    Len(t) >= 4 /\ SubSeq(t, 1, 3) = <<"(", "?", "<">> /\ t[4] \in {"=", "!"}

\* C11: a text that opens with (?<= or (?<! is no named capture group:
\* make_capture_group, make_non_capture_group, make_named_capture_group and
\* the quantifiers never raise AlreadyCapturedException on such a receiver.
C11_LookbehindNotNamed ==
    (/\ last.op \in GroupingOps \cup Quantifiers
     /\ IsLookbehind(Render(last.self)))
    => last.err # "AlreadyCapturedException"

\* The text of an operand of | as it is spliced into the alternation: a
\* text of shape NonCaptureGroup without its outer (?: and ).
Spliced(t) ==
    IF Shape(t) = "NonCaptureGroup" THEN SubSeq(t, 4, Len(t) - 1) ELSE t

\* C12: on operands with empty name sets (the second one a raw string or a
\* value) x | other succeeds and renders (?: A | B ) with A the spliced
\* text of x and B that of other; the reflected other | x renders other
\* first; the name set of the result is empty.
C12_AlternateRendering ==
    LET o == last.arg.other
        ok == /\ o.kind \in {"str", "Regex"}
              /\ NameSet(last.self) = {}
              /\ OperandNames(o) = {}
    IN  /\ (last.op = "logical_or" /\ ok) =>
              /\ last.err = ""
              /\ Render(last.out) =
                    <<"(", "?", ":">> \o Spliced(Render(last.self)) \o <<"|">>
                      \o Spliced(OperandText(o)) \o <<")">>
              /\ NameSet(last.out) = {}
        /\ (last.op = "__ror__" /\ ok) =>
              /\ last.err = ""
              /\ Render(last.out) =
                    <<"(", "?", ":">> \o Spliced(OperandText(o)) \o <<"|">>
                      \o Spliced(Render(last.self)) \o <<")">>
              /\ NameSet(last.out) = {}

\* An alternation of two alternatives was alternated with a third operand
\* that is a (?:X) group, and both were spliced.
C12_Witness ==
    /\ last.op = "logical_or"
    /\ last.err = ""
    /\ last.arg.other.kind = "Regex"
    /\ Shape(Render(last.self)) = "NonCaptureGroup"
    /\ \E i \in 1..Len(Render(last.self)) : Render(last.self)[i] = "|"
    /\ Shape(OperandText(last.arg.other)) = "NonCaptureGroup"
    /\ Len(OperandText(last.arg.other)) > 4

\* t is one non-capturing group: it opens with (?: and that parenthesis is
\* closed by the last character of t.
IsNonCaptureAtom(t) ==
    Len(t) >= 4 /\ SubSeq(t, 1, 3) = <<"(", "?", ":">> /\ GroupScan(t, 1, 0) = Len(t)

\* The texts an operand t may contribute to an alternation without a change
\* of what is matched: the whole of t, or, when t is one non-capturing
\* group, what is inside it.
AltForms(t) ==
    {t} \cup (IF IsNonCaptureAtom(t) THEN {SubSeq(t, 4, Len(t) - 1)} ELSE {})

\* The left and the right operand of the alternation that was made.
AltLeft == IF last.op = "__ror__" THEN OperandText(last.arg.other) ELSE Render(last.self)
AltRight == IF last.op = "__ror__" THEN Render(last.self) ELSE OperandText(last.arg.other)

\* C13: a successful alternation renders (?: A | B ) with A the whole left
\* operand or, when that is one non-capturing group, its inside, and B
\* likewise for the right operand; when both operands are well formed the
\* result is one non-capturing group.
C13_AlternationOneGroup ==
    (/\ last.op \in {"logical_or", "__ror__"}
     /\ last.arg.other.kind \in {"str", "Regex"}
     /\ last.err = "")
    => /\ \E A \in AltForms(AltLeft), B \in AltForms(AltRight) :
             Render(last.out) = <<"(", "?", ":">> \o A \o <<"|">> \o B \o <<")">>
       /\ (WellFormed(AltLeft) /\ WellFormed(AltRight))
             => IsNonCaptureAtom(Render(last.out))

LookaroundOps ==
    {"make_lookahead", "make_lookbehind", "make_negative_lookahead",
     "make_negative_lookbehind"}

\* The opener of each lookaround.
LookaroundOpener(op) ==
    CASE op = "make_lookahead" -> <<"(", "?", "=">>
      [] op = "make_lookbehind" -> <<"(", "?", "<", "=">>
      [] op = "make_negative_lookahead" -> <<"(", "?", "!">>
      [] op = "make_negative_lookbehind" -> <<"(", "?", "<", "!">>

\* C14: make_lookahead, make_lookbehind, make_negative_lookahead and
\* make_negative_lookbehind never raise; they render their opener, the
\* rendering of the receiver and ")", and keep the receiver's name set.
C14_LookaroundWrap ==
    last.op \in LookaroundOps =>
        /\ last.err = ""
        /\ Render(last.out) =
              LookaroundOpener(last.op) \o Render(last.self) \o <<")">>
        /\ NameSet(last.out) = NameSet(last.self)

\* make_lookbehind was called on a named capture group that carries its
\* name.
C14_Witness ==
    /\ last.op = "make_lookbehind"
    /\ Shape(Render(last.self)) = "NamedCaptureGroup"
    /\ last.self.cg # <<>>
    /\ last.err = ""
    /\ NameSet(last.out) # {}

\* The text t ends with the text s.
EndsWith(t, s) ==
    Len(s) <= Len(t) /\ SubSeq(t, Len(t) - Len(s) + 1, Len(t)) = s

\* The class text the builders generate from the arguments cs: any_char
\* gives the bare character for one argument and [..] for two or more,
\* exclude_char gives [^..] for every number of arguments.
ClassText(op, cs) ==
    IF op = "exclude_char" THEN <<"[", "^">> \o join(cs) \o <<"]">>
    ELSE IF Len(cs) = 1 THEN cs[1]
    ELSE IF Len(cs) >= 2 THEN <<"[">> \o join(cs) \o <<"]">>
    ELSE <<>>

\* C15: any_char and exclude_char raise NotACharacterException when some
\* argument is not of shape SingleChar and succeed otherwise; the value
\* returned renders the generated class text last, and renders nothing
\* else when the receiver is empty.
C15_CharClassBuilders ==
    last.op \in {"any_char", "exclude_char"} =>
        LET cs == last.arg.char
        IN  IF \E i \in 1..Len(cs) : Shape(cs[i]) # "SingleChar"
            THEN last.err = "NotACharacterException"
            ELSE /\ last.err = ""
                 /\ EndsWith(Render(last.out), ClassText(last.op, cs))
                 /\ Render(last.self) = <<>> =>
                        Render(last.out) = ClassText(last.op, cs)

\* exclude_char was called with one argument, a two-character escape.
C15_Witness ==
    /\ last.op = "exclude_char"
    /\ Len(last.arg.char) = 1
    /\ Len(last.arg.char[1]) = 2
    /\ last.err = ""
    /\ Render(last.self) # <<>>

\* C16: no call changes its receiver: after every call, whether it
\* returned a new value, returned the receiver itself or raised, the
\* receiver holds the fragments and the names it held before; a value that
\* serves as both operands of + or | is covered as the receiver.
C16_Immutable ==
    last.op \notin {"", "Regex"} =>
        /\ cur = last.self
        /\ last.same => last.out = last.self

\* make_capture_group returned its receiver, a (X) group, itself.
C16_Witness ==
    /\ last.op = "make_capture_group"
    /\ last.same
    /\ Len(Render(last.self)) > 2
    /\ cur = last.self

\* The first index k >= j with t[k] = c, 0 when there is none.
RECURSIVE IndexFrom(_, _, _)
IndexFrom(t, j, c) ==
    IF j > Len(t) THEN 0 ELSE IF t[j] = c THEN j ELSE IndexFrom(t, j + 1, c)

Digits == {"0", "1", "2", "3", "4", "5", "6", "7", "8", "9"}

SyntaxChars ==
    {"(", ")", "[", "]", "{", "}", "?", "*", "+", "|", "\\", "<", ">", "=", "!",
     ":", "^", ",", ".", "-"}

\* The length of the group opener that starts at t[i] = "(": one of
\* ( (?: (?= (?! (?<= (?<! (?<name> ; 0 when it is none of them.
OpenerLen(t, i) ==
    IF i + 1 > Len(t) \/ t[i + 1] # "?" THEN 1
    ELSE IF i + 2 > Len(t) THEN 0
    ELSE IF t[i + 2] \in {":", "=", "!"} THEN 3
    ELSE IF t[i + 2] # "<" THEN 0
    ELSE IF i + 3 <= Len(t) /\ t[i + 3] \in {"=", "!"} THEN 4
    ELSE LET j == IndexFrom(t, i + 3, ">")
         IN  IF j > i + 3 /\ \A k \in (i + 3)..(j - 1) : t[k] \notin SyntaxChars
             THEN j - i + 1
             ELSE 0

\* The index of the "}" that ends the repetition token {m} {m,} {m,n}
\* starting at t[i] = "{"; 0 when it is no such token.
BraceClose(t, i) ==
    LET j == IndexFrom(t, i + 1, "}")
    IN  IF /\ j > i + 1
           /\ t[i + 1] \in Digits
           /\ \A k \in (i + 1)..(j - 1) : t[k] \in Digits \cup {","}
           /\ Cardinality({k \in (i + 1)..(j - 1) : t[k] = ","}) <= 1
        THEN j
        ELSE 0

\* Scanning t from i; before tells what stands directly before t[i]: "atom"
\* (a character, an escape, a closed class or a closed group), "rep" (a
\* repetition suffix) or "open" (the start, a group opener or a bar).
\* Every group opener is a known one and every repetition suffix stands
\* directly after an atom.
RECURSIVE SuffixesFollowAtoms(_, _, _)
SuffixesFollowAtoms(t, i, before) ==
    IF i > Len(t) THEN TRUE
    ELSE IF t[i] = "\\" THEN i + 1 <= Len(t) /\ SuffixesFollowAtoms(t, i + 2, "atom")
    ELSE IF t[i] = "["
         THEN ClassClose(t, i) # 0 /\ SuffixesFollowAtoms(t, ClassClose(t, i) + 1, "atom")
    ELSE IF t[i] = "("
         THEN OpenerLen(t, i) # 0 /\ SuffixesFollowAtoms(t, i + OpenerLen(t, i), "open")
    ELSE IF t[i] = "|" THEN SuffixesFollowAtoms(t, i + 1, "open")
    ELSE IF t[i] \in {"?", "*", "+"}
         THEN before = "atom" /\ SuffixesFollowAtoms(t, i + 1, "rep")
    ELSE IF t[i] = "{"
         THEN /\ before = "atom"
              /\ BraceClose(t, i) # 0
              /\ SuffixesFollowAtoms(t, BraceClose(t, i) + 1, "rep")
    ELSE SuffixesFollowAtoms(t, i + 1, "atom")

\* t is a well-formed pattern.
ValidPattern(t) == WellFormed(t) /\ SuffixesFollowAtoms(t, 1, "open")

\* C17: every value built from well-formed values by a call with
\* non-negative repetition counts (and, for any_char and exclude_char, at
\* least one character) renders a well-formed pattern: parentheses
\* balanced, classes closed, every group opener a known one, every
\* repetition suffix directly after an atom.
C17_ValidPattern ==
    (/\ last.op # ""
     /\ last.err = ""
     /\ last.arg.m >= 0 /\ last.arg.n >= 0
     /\ last.op \in {"any_char", "exclude_char"} => last.arg.char # <<>>
     /\ ValidPattern(Render(last.self))
     /\ last.arg.other.kind = "Regex" => ValidPattern(Render(last.arg.other.v)))
    => ValidPattern(Render(last.out))

\* C17 for the calls that are not a grouping transform or a quantifier on a
\* lookahead.
ValidPatternElsewhere ==
    \/ /\ last.op \in GroupingOps \cup Quantifiers
       /\ Len(Render(last.self)) >= 3
       /\ SubSeq(Render(last.self), 1, 2) = <<"(", "?">>
       /\ Render(last.self)[3] \in {"=", "!"}
    \/ C17_ValidPattern

\* C18: on a receiver that passes the quantifier guard and that
\* make_non_capture_group accepts, exactly_m_repetitions(m) with m < 0,
\* m_to_n_repetitions(m, n) with m < 0 or n < 0 and
\* m_or_more_repetitions(m) with m < 0 raise ValueError.
C18_NegativeBoundsRejected ==
    (/\ last.op \in {"exactly_m_repetitions", "m_to_n_repetitions",
                     "m_or_more_repetitions"}
     /\ (last.arg.m < 0 \/ last.arg.n < 0)
     /\ Render(last.self) # <<>>
     /\ ~EndsInRepetition(Render(last.self))
     /\ make_non_capture_group(last.self).err = "")
    => last.err = "ValueError"

\* C18 for m_or_more_repetitions alone, on the receivers that do not end
\* in an escaped ?, *, + or }.
NegativeBoundsRejectedMOrMore ==
    (last.op = "m_or_more_repetitions" /\ ~EndsInEscapedSuffix(Render(last.self)))
        => C18_NegativeBoundsRejected

\* C19: zero_or_more_repetitions(one_or_more_repetitions(x)) raises
\* AlreadyRepeatingException and nothing else, for every x: when the inner
\* call returns a value the outer call on it raises it, and when the inner
\* call raises, it raises nothing but AlreadyRepeatingException.
C19_DoubleQuantifier ==
    last.op = "one_or_more_repetitions" =>
        IF last.err = ""
        THEN zero_or_more_repetitions(last.out).err = "AlreadyRepeatingException"
        ELSE last.err = "AlreadyRepeatingException"

\* C19 for every x that is not empty and does not open with (?< and end
\* with ).
DoubleQuantifierUnnamed ==
    \/ Render(last.self) = <<>>
    \/ /\ Len(Render(last.self)) >= 5
       /\ SubSeq(Render(last.self), 1, 3) = <<"(", "?", "<">>
       /\ Render(last.self)[Len(Render(last.self))] = ")"
    \/ C19_DoubleQuantifier

\* The two-character escape \d
DigitEscape == <<"\\", "d">>

\* C20, as stated: exactly_m_repetitions(3) on a receiver that renders \d
\* renders (?:\d){3}.
C20_ExactlyDigitGrouped ==
    (/\ last.op = "exactly_m_repetitions"
     /\ last.arg.m = 3
     /\ Render(last.self) = DigitEscape)
    => /\ last.err = ""
       /\ Render(last.out) = <<"(", "?", ":">> \o DigitEscape \o <<")", "{", "3", "}">>

\* C20, amended: exactly_m_repetitions(3) on a receiver that renders \d
\* renders \d{3}: the escape is one atom and gets no group.
C20_ExactlyDigit ==
    (/\ last.op = "exactly_m_repetitions"
     /\ last.arg.m = 3
     /\ Render(last.self) = DigitEscape)
    => /\ last.err = ""
       /\ Render(last.out) = DigitEscape \o <<"{", "3", "}">>

\* exactly_m_repetitions(3) was called on a receiver that renders \d.
C20_Witness ==
    /\ last.op = "exactly_m_repetitions"
    /\ last.arg.m = 3
    /\ Render(last.self) = DigitEscape
    /\ last.err = ""

\* C21: any_char and exclude_char with arguments that are all of shape
\* SingleChar, of any number, return a value that renders the receiver
\* followed by the generated class text, with the receiver's name set.
C21_ClassAppends ==
    (/\ last.op \in {"any_char", "exclude_char"}
     /\ \A i \in 1..Len(last.arg.char) : Shape(last.arg.char[i]) = "SingleChar")
    => /\ last.err = ""
       /\ Render(last.out) = Render(last.self) \o ClassText(last.op, last.arg.char)
       /\ NameSet(last.out) = NameSet(last.self)

\* C21 for exclude_char, and for any_char with two or more arguments.
ClassAppendsBracketed ==
    (last.op = "any_char" /\ Len(last.arg.char) <= 1) \/ C21_ClassAppends

\* t is the escape of a character that is a repetition suffix when it is
\* not escaped: \? \* \+ \}
IsEscapedSuffixChar(t) ==
    Len(t) = 2 /\ t[1] = "\\" /\ t[2] \in {"?", "*", "+", "}"}

\* C22: a quantifier on a receiver that renders an escaped ?, *, + or }
\* does not raise AlreadyRepeatingException, and what it returns renders
\* the escape followed by the suffix.
C22_EscapedNotRepeating ==
    (last.op \in Quantifiers /\ IsEscapedSuffixChar(Render(last.self)))
    => /\ last.err # "AlreadyRepeatingException"
       /\ last.err = "" =>
             Render(last.out) =
                Render(last.self) \o TableSuffix(last.op, last.arg.m, last.arg.n)

\* The quantifier guard raises exactly on the receivers that end in a
\* repetition suffix or in an escaped ?, *, + or }.
GuardRaisesOnLastCharacter ==
    (last.op \in Quantifiers /\ Render(last.self) # <<>>) =>
        (last.err = "AlreadyRepeatingException"
           <=> \/ EndsInRepetition(Render(last.self))
               \/ EndsInEscapedSuffix(Render(last.self)))

\* The error kinds the builder declares, by the names of their exception
\* classes; "" stands for a call that returned.
DeclaredErrors ==
    {"AlreadyRepeatingException", "AlreadyCapturedException",
     "NotACharacterException", "SetIntersectionError", "NonEmptyError",
     "ValueError", "TypeError"}

\* C23: every call on every reachable receiver, the empty value included,
\* returns or raises one of the declared errors; a quantifier call on the
\* empty value whose arguments are in the suffix table returns a value
\* that renders (?:) followed by the suffix.
C23_ErrorClosure ==
    /\ last.err \in DeclaredErrors \cup {""}
    /\ (/\ last.op \in Quantifiers
        /\ Render(last.self) = <<>>
        /\ last.op \in {"m_to_n_repetitions", "exactly_m_repetitions",
                        "m_or_more_repetitions"} => last.arg.m >= 0
        /\ last.op = "m_to_n_repetitions" =>
               \/ last.arg.m < last.arg.n
               \/ (last.arg.m = 0 /\ last.arg.n = 1))
       => /\ last.err = ""
          /\ Render(last.out) =
                <<"(", "?", ":", ")">>
                  \o TableSuffix(last.op, last.arg.m, last.arg.n)

\* Every call other than a quantifier call on the empty value returns or
\* raises one of the declared errors; a quantifier call on the empty value
\* raises IndexError.
ErrorClosureElsewhere ==
    IF last.op \in Quantifiers /\ Render(last.self) = <<>>
    THEN last.err = "IndexError"
    ELSE last.err \in DeclaredErrors \cup {""}

====
